---- MODULE Spec2Model ----
(***************************************************************************)
(* BACnet typed values (BACnetBoolean, BACnetStatusFlags, BACnetObjectId)  *)
(* and the Complex-ACK envelope decoder of tid-bacnet-logic.               *)
(*                                                                         *)
(* One instance is modelled at a time: className says which class it is.   *)
(* Its fields are tag and data.  A compound value (status flags, object    *)
(* identifier) is a JavaScript object, so data is then a reference into    *)
(* heap and the caller's own reference is held: aliasing between the two   *)
(* is what the defensive copies are about.  writer, reader and ret are the *)
(* bytes emitted, the reader left behind and the value returned by the     *)
(* last operation; op, arg and err are that operation, the argument the    *)
(* caller passed to it, and what it threw.                                 *)
(***************************************************************************)
EXTENDS Integers, Sequences, FiniteSets, TLC

VARIABLES className, tag, data, heap, held, op, arg, err, writer, reader, ret, pdu

vars == <<className, tag, data, heap, held, op, arg, err, writer, reader, ret, pdu>>

(***************************************************************************)
(* Bounds of the model.                                                    *)
(***************************************************************************)
\* Numeric inputs are 0..MaxSmall, together with the top of their range.
MaxSmall == 1

(***************************************************************************)
(* Enums (src/enums is not part of the sources at hand): the BACnet        *)
(* application tag numbers and the two tag classes.                        *)
(***************************************************************************)
PropertyType_boolean == 1
PropertyType_bitString == 8
PropertyType_objectIdentifier == 12
TagType_application == 0
TagType_context == 1

NoError == "none"
BACnetError == "BACnetError"
OutOfRange == "OutOfRange"

NoTag == [num |-> -1, type |-> -1, value |-> -1]
NoReader == [buf |-> <<>>, pos |-> 0]

Pow2(n) == 2 ^ n

(***************************************************************************)
(* Utils.Typer: single bits and bit ranges, least significant bit = 0.     *)
(* A 32-bit word is a function 0..31 -> {0,1}, so that no bit is lost to   *)
(* the width of the checker's integers.                                    *)
(***************************************************************************)
getBit(bitMap, pos) == (bitMap \div Pow2(pos)) % 2

setBit(bitMap, pos, bitValue) ==
    bitMap - getBit(bitMap, pos) * Pow2(pos) + (IF bitValue THEN Pow2(pos) ELSE 0)

ZeroWord == [i \in 0..31 |-> 0]

RECURSIVE BitsValue(_, _, _)
BitsValue(word, startBit, rangeLength) ==
    IF rangeLength = 0 THEN 0
    ELSE word[startBit] + 2 * BitsValue(word, startBit + 1, rangeLength - 1)

getBitRange(word, startBit, rangeLength) == BitsValue(word, startBit, rangeLength)

setBitRange(word, startBit, rangeLength, rangeValue) ==
    [i \in 0..31 |->
        IF i >= startBit /\ i < startBit + rangeLength
        THEN (rangeValue \div Pow2(i - startBit)) % 2
        ELSE word[i]]

(***************************************************************************)
(* IOs.Writer / IOs.Reader: bytes are 0..255, a buffer is a sequence of    *)
(* bytes, a reader position is the number of bytes consumed.               *)
(***************************************************************************)
writeUInt8(value) == <<value % 256>>

writeUInt32BE(word) ==
    <<BitsValue(word, 24, 8), BitsValue(word, 16, 8),
      BitsValue(word, 8, 8), BitsValue(word, 0, 8)>>

\* writeUIntValue: an unsigned integer in the fewest bytes (here always < 256).
writeUIntValue(value) == <<value % 256>>

\* The tag header in its minimal form.
writeTag(tagNumber, tagClass, tagValue) ==
    LET nib  == IF tagNumber <= 14 THEN tagNumber ELSE 15
        lvt  == IF tagValue <= 4 THEN tagValue ELSE 5
        ext  == IF tagNumber <= 14 THEN <<>> ELSE <<tagNumber>>
        len  == IF tagValue <= 4 THEN <<>>
                ELSE IF tagValue <= 253 THEN <<tagValue>>
                ELSE IF tagValue <= 65535
                     THEN <<254, tagValue \div 256, tagValue % 256>>
                     ELSE <<255, (tagValue \div 16777216) % 256,
                            (tagValue \div 65536) % 256,
                            (tagValue \div 256) % 256, tagValue % 256>>
    IN  <<nib * 16 + (tagClass % 2) * 8 + lvt>> \o ext \o len

CanRead(rd, n) == rd.pos + n <= Len(rd.buf)

\* The byte at offset k from the reader's position (k = 0: the next byte).
Peek(rd, k) == rd.buf[rd.pos + k + 1]

Skip(rd, n) == [rd EXCEPT !.pos = @ + n]

readUInt8(rd) ==
    IF CanRead(rd, 1)
    THEN [err |-> NoError, value |-> Peek(rd, 0), rd |-> Skip(rd, 1)]
    ELSE [err |-> OutOfRange, value |-> 0, rd |-> rd]

ByteBits(b, i) == (b \div Pow2(i)) % 2

readUInt32BE(rd) ==
    IF CanRead(rd, 4)
    THEN [err |-> NoError,
          value |-> [i \in 0..31 |-> ByteBits(Peek(rd, 3 - (i \div 8)), i % 8)],
          rd |-> Skip(rd, 4)]
    ELSE [err |-> OutOfRange, value |-> ZeroWord, rd |-> rd]

\* readTag: header byte, then the extended tag number, then the extended length
\* (a four-byte length is kept to 31 bits, the width of the checker's integers;
\* no input here carries one).
readTag(rd0) ==
    IF ~CanRead(rd0, 1) THEN [err |-> OutOfRange, tag |-> NoTag, rd |-> rd0]
    ELSE
    LET b    == Peek(rd0, 0)
        nib  == b \div 16
        cls  == (b \div 8) % 2
        lvt  == b % 8
        rd1  == Skip(rd0, 1)
        okN  == nib # 15 \/ CanRead(rd1, 1)
        num  == IF nib = 15 /\ okN THEN Peek(rd1, 0) ELSE nib
        rd2  == IF nib = 15 /\ okN THEN Skip(rd1, 1) ELSE rd1
        okL  == lvt # 5 \/ CanRead(rd2, 1)
        l1   == IF lvt = 5 /\ okL THEN Peek(rd2, 0) ELSE lvt
        rd3  == IF lvt = 5 /\ okL THEN Skip(rd2, 1) ELSE rd2
        wide == IF lvt # 5 THEN 0 ELSE IF l1 = 254 THEN 2 ELSE IF l1 = 255 THEN 4 ELSE 0
        okW  == CanRead(rd3, wide)
        val  == IF wide = 2 /\ okW THEN Peek(rd3, 0) * 256 + Peek(rd3, 1)
                ELSE IF wide = 4 /\ okW
                THEN ((Peek(rd3, 0) % 128) * 16777216) + Peek(rd3, 1) * 65536
                     + Peek(rd3, 2) * 256 + Peek(rd3, 3)
                ELSE l1
    IN  IF okN /\ okL /\ okW
        THEN [err |-> NoError, tag |-> [num |-> num, type |-> cls, value |-> val],
              rd |-> Skip(rd3, wide)]
        ELSE [err |-> OutOfRange, tag |-> NoTag, rd |-> rd0]

(***************************************************************************)
(* JavaScript values and objects.                                          *)
(*                                                                         *)
(* A primitive argument is [t, b, n]: its typeof, and its value when it is *)
(* a boolean (b) or a number (n).  An object is a function from the names  *)
(* of its own properties to their values.  Addresses are canonical: the    *)
(* instance's object is kept at address 1 and the caller's, when it is     *)
(* another object, at address 2; an object no reference reaches is         *)
(* dropped.  Only whether held = data can be observed by a program.        *)
(***************************************************************************)
JsBoolean(b) == [t |-> "boolean", b |-> b, n |-> 0]
JsNumber(n) == [t |-> "number", b |-> FALSE, n |-> n]
JsString == [t |-> "string", b |-> FALSE, n |-> 0]
JsNull == [t |-> "null", b |-> FALSE, n |-> 0]
JsUndefined == [t |-> "undefined", b |-> FALSE, n |-> 0]

isUndefined(v) == v.t = "undefined"
isBoolean(v) == v.t = "boolean"

EmptyObj == [k \in {} |-> 0]
EmptyHeap == [r \in 1..2 |-> EmptyObj]

\* References a caller can pass instead of an object.
UndefinedRef == 0
NullRef == 0 - 1
IsObjectRef(r) == r \in 1..2
Deref(r) == IF IsObjectRef(r) THEN heap[r] ELSE EmptyObj

has(obj, key) == key \in DOMAIN obj
clone(obj) == [k \in DOMAIN obj |-> obj[k]]
cloneDeep(obj) == [k \in DOMAIN obj |-> obj[k]]
assign(target, source) ==
    [k \in DOMAIN target \cup DOMAIN source |->
        IF k \in DOMAIN source THEN source[k] ELSE target[k]]

\* this.data = <a new object>; a caller that held the old one keeps it.
StoreData(obj) ==
    /\ data' = 1
    /\ heap' = IF held = data THEN [heap EXCEPT ![1] = obj, ![2] = heap[data]]
               ELSE [heap EXCEPT ![1] = obj]
    /\ held' = IF held = data THEN 2 ELSE held

\* The caller receives a new object (and lets go of the one it held).
StoreHeld(obj) ==
    /\ held' = 2
    /\ heap' = [heap EXCEPT ![2] = obj]
    /\ data' = data

\* The caller receives the reference this.data itself.
ShareAsHeld ==
    /\ held' = data
    /\ heap' = [heap EXCEPT ![2] = EmptyObj]
    /\ data' = data

NoArg == "none"

\* The argument of a read: the bytes the last operation wrote, or foreign ones.
Source(buf) == IF buf = writer THEN "written" ELSE "foreign"

\* The caller's reference as it stands after the call it was passed to.
PassedRef(r) == IF r \in 1..2 THEN held' ELSE r

\* What the last operation left behind: its name, argument, error, bytes, reader, result.
Done(o, a, e, w, rd, rt) ==
    /\ op' = o
    /\ arg' = a
    /\ err' = e
    /\ writer' = w
    /\ reader' = rd
    /\ ret' = rt
    /\ UNCHANGED <<className, pdu>>

NoPdu == [pc |-> "none", map |-> EmptyObj]

\* No instance exists after a constructor that threw.
Constructed == ~(op = "constructor" /\ err # NoError)

Is(cls) == className = cls /\ Constructed

(***************************************************************************)
(* Inputs.                                                                 *)
(***************************************************************************)
SampleBytes == (0..MaxSmall) \cup {127, 128} \cup ((255 - MaxSmall)..255)
TagNums == {0, 14, 15, 254}
TagDescriptors == [num : TagNums, type : {TagType_application, TagType_context}]
OidTagDescriptors == {t \in TagDescriptors : t.num \in {0, 15}}

\* The bytes a reader may be given: those just written, or foreign ones.
Inputs(foreign) == foreign \cup (IF writer # <<>> THEN {writer} ELSE {})

Truncations(bufs) == {SubSeq(b, 1, n) : b \in bufs, n \in 0..1}

(***************************************************************************)
(* BACnetBoolean                                                           *)
(***************************************************************************)
BooleanArgs ==
    {JsBoolean(TRUE), JsBoolean(FALSE), JsString, JsNull, JsUndefined}
        \cup {JsNumber(n) : n \in 0..MaxSmall}

BACnetBoolean_checkAndGetValue(value) ==
    IF ~isBoolean(value)
    THEN [err |-> BACnetError, value |-> FALSE]
    ELSE [err |-> NoError, value |-> value.b]

\* The fields after new BACnetBoolean(defValue).
BACnetBoolean_constructor(defValue) ==
    IF isUndefined(defValue)
    THEN [err |-> NoError, value |-> FALSE]
    ELSE BACnetBoolean_checkAndGetValue(defValue)

BooleanBuffers ==
    LET ctx == {writeTag(n, TagType_context, 1) \o <<b>> : n \in TagNums, b \in SampleBytes}
        app == {<<PropertyType_boolean * 16 + v>> : v \in 0..(MaxSmall + 1)}
    IN  ctx \cup app \cup Truncations(ctx)

\* Faulty variant (mutation testing): a context payload byte counts as true only when it is 1.
BACnetBoolean_readValue_one(buf) ==
    /\ Is("BACnetBoolean")
    /\ LET t == readTag([buf |-> buf, pos |-> 0])
           b == readUInt8(t.rd)
       IN  IF t.err # NoError
           THEN /\ UNCHANGED <<tag, data>>
                /\ Done("readValue", Source(buf), t.err, <<>>, t.rd, FALSE)
           ELSE /\ tag' = t.tag
                /\ IF t.tag.type = TagType_application
                   THEN /\ data' = (t.tag.value # 0)
                        /\ Done("readValue", Source(buf), NoError, <<>>, t.rd, FALSE)
                   ELSE /\ data' = IF b.err = NoError THEN b.value = 1 ELSE data
                        /\ Done("readValue", Source(buf), b.err, <<>>, b.rd, FALSE)
    /\ UNCHANGED <<heap, held>>

BACnetBoolean_readValue(buf) ==
    /\ Is("BACnetBoolean")
    /\ LET t == readTag([buf |-> buf, pos |-> 0])
           b == readUInt8(t.rd)
       IN  IF t.err # NoError
           THEN /\ UNCHANGED <<tag, data>>
                /\ Done("readValue", Source(buf), t.err, <<>>, t.rd, FALSE)
           ELSE /\ tag' = t.tag
                /\ IF t.tag.type = TagType_application
                   THEN /\ data' = (t.tag.value # 0)
                        /\ Done("readValue", Source(buf), NoError, <<>>, t.rd, FALSE)
                   ELSE /\ data' = IF b.err = NoError THEN b.value # 0 ELSE data
                        /\ Done("readValue", Source(buf), b.err, <<>>, b.rd, FALSE)
    /\ UNCHANGED <<heap, held>>

Number(b) == IF b THEN 1 ELSE 0

\* Faulty variant (mutation testing): the application form written like a parameter, with a payload byte.
BACnetBoolean_writeValue_payload ==
    /\ Is("BACnetBoolean")
    /\ Done("writeValue", NoArg, NoError,
            writeTag(PropertyType_boolean, TagType_application, 1)
                \o writeUIntValue(Number(data)),
            NoReader, FALSE)
    /\ UNCHANGED <<tag, data, heap, held>>

BACnetBoolean_writeValue ==
    /\ Is("BACnetBoolean")
    /\ Done("writeValue", NoArg, NoError,
            writeTag(PropertyType_boolean, TagType_application, Number(data)),
            NoReader, FALSE)
    /\ UNCHANGED <<tag, data, heap, held>>

\* Faulty variant (mutation testing): the class of the descriptor ignored, context written always.
BACnetBoolean_writeParam_context(t) ==
    /\ Is("BACnetBoolean")
    /\ LET dataSize == 1
       IN  Done("writeParam", t, NoError,
                writeTag(t.num, TagType_context, dataSize) \o writeUIntValue(Number(data)),
                NoReader, FALSE)
    /\ UNCHANGED <<tag, data, heap, held>>

BACnetBoolean_writeParam(t) ==
    /\ Is("BACnetBoolean")
    /\ LET dataSize == 1
       IN  Done("writeParam", t, NoError,
                writeTag(t.num, t.type, dataSize) \o writeUIntValue(Number(data)),
                NoReader, FALSE)
    /\ UNCHANGED <<tag, data, heap, held>>

BACnetBoolean_setValue(newValue) ==
    /\ Is("BACnetBoolean")
    /\ LET r == BACnetBoolean_checkAndGetValue(newValue)
       IN  /\ data' = IF r.err = NoError THEN r.value ELSE data
           /\ Done("setValue", newValue, r.err, <<>>, NoReader, FALSE)
    /\ UNCHANGED <<tag, heap, held>>

BACnetBoolean_getValue ==
    /\ Is("BACnetBoolean")
    /\ Done("getValue", NoArg, NoError, <<>>, NoReader, data)
    /\ UNCHANGED <<tag, data, heap, held>>

InitBoolean ==
    \E defValue \in BooleanArgs :
        LET r == BACnetBoolean_constructor(defValue)
        IN  /\ className = "BACnetBoolean"
            /\ tag = NoTag
            /\ data = r.value
            /\ heap = EmptyHeap
            /\ held = UndefinedRef
            /\ op = "constructor"
            /\ arg = defValue
            /\ err = r.err
            /\ writer = <<>>
            /\ reader = NoReader
            /\ ret = FALSE
            /\ pdu = NoPdu

NextBoolean ==
    \/ \E buf \in Inputs(BooleanBuffers) : BACnetBoolean_readValue(buf)
    \/ BACnetBoolean_writeValue
    \/ \E t \in TagDescriptors : BACnetBoolean_writeParam(t)
    \/ \E v \in BooleanArgs : BACnetBoolean_setValue(v)
    \/ BACnetBoolean_getValue

(***************************************************************************)
(* The caller's own object: made empty, then filled property by property.  *)
(***************************************************************************)
CallerNew ==
    /\ Constructed
    /\ className \in {"BACnetStatusFlags", "BACnetObjectId"}
    /\ StoreHeld(EmptyObj)
    /\ Done("callerNew", NoArg, NoError, <<>>, NoReader, FALSE)
    /\ UNCHANGED tag

\* held[key] = value, on whatever object the caller's reference designates.
CallerAssign(key, value) ==
    /\ Constructed
    /\ IsObjectRef(held)
    /\ heap' = [heap EXCEPT ![held] = assign(@, [k \in {key} |-> value])]
    /\ Done("callerAssign", NoArg, NoError, <<>>, NoReader, FALSE)
    /\ UNCHANGED <<tag, data, held>>

(***************************************************************************)
(* BACnetStatusFlags                                                       *)
(***************************************************************************)
FlagNames == {"inAlarm", "fault", "overridden", "outOfService"}

DefaultFlags == [k \in FlagNames |-> FALSE]

\* Every object holding some of the four flags.
FlagPayloads == UNION {[S -> BOOLEAN] : S \in SUBSET FlagNames}

BACnetStatusFlags_checkAndGetValue(value) == assign(assign(EmptyObj, DefaultFlags), value)

\* Faulty variant (mutation testing): fault and overridden written to each other's bit.
StatusFlagsByte_swapped(d) ==
    LET s0 == 0
        s1 == setBit(s0, 7, d["inAlarm"])
        s2 == setBit(s1, 5, d["fault"])
        s3 == setBit(s2, 6, d["overridden"])
        s4 == setBit(s3, 4, d["outOfService"])
    IN  s4

StatusFlagsByte(d) ==
    LET s0 == 0
        s1 == setBit(s0, 7, d["inAlarm"])
        s2 == setBit(s1, 6, d["fault"])
        s3 == setBit(s2, 5, d["overridden"])
        s4 == setBit(s3, 4, d["outOfService"])
    IN  s4

StatusFlagsFromByte(value) ==
    [k \in FlagNames |->
        CASE k = "inAlarm" -> getBit(value, 7) # 0
          [] k = "fault" -> getBit(value, 6) # 0
          [] k = "overridden" -> getBit(value, 5) # 0
          [] k = "outOfService" -> getBit(value, 4) # 0]

StatusFlagsBuffers ==
    LET full == {writeTag(n, TagType_context, 2) \o <<u, b>> :
                    n \in {0}, u \in {0, 4}, b \in {16 * MaxSmall + 15, 165, 255}}
    IN  full \cup Truncations(full)

BACnetStatusFlags_readValue(buf) ==
    /\ Is("BACnetStatusFlags")
    /\ LET t == readTag([buf |-> buf, pos |-> 0])
           unusedBits == readUInt8(t.rd)
           value == readUInt8(unusedBits.rd)
           e == IF t.err # NoError THEN t.err
                ELSE IF unusedBits.err # NoError THEN unusedBits.err ELSE value.err
       IN  /\ tag' = IF t.err = NoError THEN t.tag ELSE tag
           /\ IF e = NoError
              THEN StoreData(StatusFlagsFromByte(value.value))
              ELSE UNCHANGED <<data, heap, held>>
           /\ Done("readValue", Source(buf), e, <<>>, value.rd, FALSE)

BACnetStatusFlags_writeValue ==
    /\ Is("BACnetStatusFlags")
    /\ Done("writeValue", NoArg, NoError,
            writeTag(PropertyType_bitString, 0, 2) \o writeUInt8(4)
                \o writeUInt8(StatusFlagsByte(heap[data])),
            NoReader, FALSE)
    /\ UNCHANGED <<tag, data, heap, held>>

\* Faulty variant (mutation testing): the new flags merged into the stored ones instead of the defaults.
BACnetStatusFlags_setValue_merge(newValue) ==
    /\ Is("BACnetStatusFlags")
    /\ StoreData(assign(heap[data], Deref(newValue)))
    /\ Done("setValue", PassedRef(newValue), NoError, <<>>, NoReader, FALSE)
    /\ UNCHANGED tag

BACnetStatusFlags_setValue(newValue) ==
    /\ Is("BACnetStatusFlags")
    /\ StoreData(BACnetStatusFlags_checkAndGetValue(Deref(newValue)))
    /\ Done("setValue", PassedRef(newValue), NoError, <<>>, NoReader, FALSE)
    /\ UNCHANGED tag

BACnetStatusFlags_getValue ==
    /\ Is("BACnetStatusFlags")
    /\ StoreHeld(cloneDeep(heap[data]))
    /\ Done("getValue", NoArg, NoError, <<>>, NoReader, FALSE)
    /\ UNCHANGED tag

\* The references a caller can pass: undefined, null, or its own object.
CallerRefs == {UndefinedRef, NullRef} \cup (IF IsObjectRef(held) THEN {held} ELSE {})

InitStatusFlags ==
    \E defValue \in {UndefinedRef, NullRef, 2}, payload \in FlagPayloads :
      LET passed == IsObjectRef(defValue) IN
        /\ passed \/ payload = EmptyObj
        /\ className = "BACnetStatusFlags"
        /\ tag = NoTag
        /\ data = 1
        /\ heap = [r \in 1..2 |->
                     IF r = 1
                     THEN BACnetStatusFlags_checkAndGetValue(payload)
                     ELSE IF passed THEN payload ELSE EmptyObj]
        /\ held = IF passed THEN 2 ELSE UndefinedRef
        /\ op = "constructor"
        /\ arg = defValue
        /\ err = NoError
        /\ writer = <<>>
        /\ reader = NoReader
        /\ ret = FALSE
        /\ pdu = NoPdu

NextStatusFlags ==
    \/ \E buf \in Inputs(StatusFlagsBuffers) : BACnetStatusFlags_readValue(buf)
    \/ BACnetStatusFlags_writeValue
    \/ \E r \in CallerRefs : BACnetStatusFlags_setValue(r)
    \/ BACnetStatusFlags_getValue
    \/ \E k \in FlagNames, v \in BOOLEAN :
          className = "BACnetStatusFlags" /\ CallerAssign(k, v)

(***************************************************************************)
(* BACnetObjectId                                                          *)
(***************************************************************************)
OidTypes == (0..MaxSmall) \cup {1023}
OidInstances == (0..MaxSmall) \cup {4194303}

\* Every object holding some of {type, instance}.
OidPayloads ==
    {assign(a, b) : a \in {EmptyObj} \cup {[k \in {"type"} |-> t] : t \in OidTypes},
                    b \in {EmptyObj} \cup {[k \in {"instance"} |-> i] : i \in OidInstances}}

ObjectId(t, i) == [k \in {"type", "instance"} |-> IF k = "type" THEN t ELSE i]

\* Faulty variant (mutation testing): only the type field required.
BACnetObjectId_checkAndGetValue_typeOnly(value) ==
    IF ~has(value, "type")
    THEN BACnetError
    ELSE NoError

BACnetObjectId_checkAndGetValue(value) ==
    IF ~has(value, "type") \/ ~has(value, "instance")
    THEN BACnetError
    ELSE NoError

BACnetObjectId_decodeObjectIdentifier(objId) ==
    LET objType == getBitRange(objId, 22, 10)
        objInstance == getBitRange(objId, 0, 22)
    IN  ObjectId(objType, objInstance)

\* Faulty variant (mutation testing): the type field placed one bit too low.
BACnetObjectId_encodeObjectIdentifier_shift21(objId) ==
    LET e0 == ZeroWord
        e1 == setBitRange(e0, 21, 10, objId["type"])
        e2 == setBitRange(e1, 0, 22, objId["instance"])
    IN  e2

BACnetObjectId_encodeObjectIdentifier(objId) ==
    LET e0 == ZeroWord
        e1 == setBitRange(e0, 22, 10, objId["type"])
        e2 == setBitRange(e1, 0, 22, objId["instance"])
    IN  e2

BACnetObjectId_isEqualObjectId(objId1, objId2) ==
    LET same(k) == IF has(objId1, k) /\ has(objId2, k)
                   THEN objId1[k] = objId2[k]
                   ELSE ~has(objId1, k) /\ ~has(objId2, k)
    IN  same("type") /\ same("instance")

\* Foreign object identifiers: the one of complex-ack.pdu.spec.ts, and all ones.
ObjectIdBuffers ==
    LET full == {<<12, 2, 0, 0, 1>>, <<196, 255, 255, 255, 255>>}
    IN  full \cup Truncations(full)

BACnetObjectId_readValue(buf) ==
    /\ Is("BACnetObjectId")
    /\ LET t == readTag([buf |-> buf, pos |-> 0])
           encodedObjId == readUInt32BE(t.rd)
           decodedObjId == BACnetObjectId_decodeObjectIdentifier(encodedObjId.value)
           e == IF t.err # NoError THEN t.err ELSE encodedObjId.err
       IN  /\ tag' = IF t.err = NoError THEN t.tag ELSE tag
           /\ IF e = NoError
              THEN StoreData(decodedObjId)
              ELSE UNCHANGED <<data, heap, held>>
           /\ Done("readValue", Source(buf), e, <<>>, encodedObjId.rd, FALSE)

\* The bytes writeParam appends to the writer.
ObjectIdParamBytes(d, t) ==
    LET dataSize == 4
        objectIdentifier == BACnetObjectId_encodeObjectIdentifier(d)
    IN  writeTag(t.num, t.type, dataSize) \o writeUInt32BE(objectIdentifier)

\* Faulty variant (mutation testing): the descriptor kept as the instance's tag.
BACnetObjectId_writeParam_keepsTag(t) ==
    /\ Is("BACnetObjectId")
    /\ tag' = [num |-> t.num, type |-> t.type, value |-> 4]
    /\ Done("writeParam", t, NoError, ObjectIdParamBytes(heap[data], t), NoReader, FALSE)
    /\ UNCHANGED <<data, heap, held>>

BACnetObjectId_writeParam(t) ==
    /\ Is("BACnetObjectId")
    /\ Done("writeParam", t, NoError, ObjectIdParamBytes(heap[data], t), NoReader, FALSE)
    /\ UNCHANGED <<tag, data, heap, held>>

BACnetObjectId_writeValue ==
    /\ Is("BACnetObjectId")
    /\ Done("writeValue", NoArg, NoError,
            ObjectIdParamBytes(heap[data],
                [num |-> PropertyType_objectIdentifier, type |-> TagType_application]),
            NoReader, FALSE)
    /\ UNCHANGED <<tag, data, heap, held>>

BACnetObjectId_setValue(newValue) ==
    /\ Is("BACnetObjectId")
    /\ LET copy == clone(Deref(newValue))
           e == BACnetObjectId_checkAndGetValue(copy)
       IN  /\ IF e = NoError
              THEN StoreData(copy)
              ELSE UNCHANGED <<data, heap, held>>
           /\ Done("setValue", PassedRef(newValue), e, <<>>, NoReader, FALSE)
    /\ UNCHANGED tag

\* Faulty variant (mutation testing): the live this.data returned, not a copy.
BACnetObjectId_getValue_live ==
    /\ Is("BACnetObjectId")
    /\ ShareAsHeld
    /\ Done("getValue", NoArg, NoError, <<>>, NoReader, FALSE)
    /\ UNCHANGED tag

BACnetObjectId_getValue ==
    /\ Is("BACnetObjectId")
    /\ StoreHeld(cloneDeep(heap[data]))
    /\ Done("getValue", NoArg, NoError, <<>>, NoReader, FALSE)
    /\ UNCHANGED tag

\* isEqual(data): data is nil, another BACnetObjectId, an object, or a primitive.
IsEqualArgs ==
    {[kind |-> "nil", value |-> EmptyObj], [kind |-> "primitive", value |-> EmptyObj]}
        \cup {[kind |-> "instance", value |-> ObjectId(t, i)] :
                 t \in OidTypes, i \in OidInstances}
        \cup (IF IsObjectRef(held) THEN {[kind |-> "object", value |-> heap[held]]} ELSE {})

BACnetObjectId_isEqual(other) ==
    /\ Is("BACnetObjectId")
    /\ LET value == cloneDeep(heap[data])
           result == IF other.kind \in {"instance", "object"}
                     THEN BACnetObjectId_isEqualObjectId(value, cloneDeep(other.value))
                     ELSE FALSE
       IN  Done("isEqual", other.kind, NoError, <<>>, NoReader, result)
    /\ UNCHANGED <<tag, data, heap, held>>

InitObjectId ==
    \E defValue \in {UndefinedRef, NullRef, 2}, payload \in OidPayloads :
        LET passed == IsObjectRef(defValue)
            copy == clone(payload)
            e == IF defValue = UndefinedRef THEN NoError
                 ELSE BACnetObjectId_checkAndGetValue(copy)
        IN  /\ passed \/ payload = EmptyObj
            /\ className = "BACnetObjectId"
            /\ tag = NoTag
            /\ data = 1
            /\ heap = [r \in 1..2 |->
                         IF r = 1
                         THEN IF defValue = UndefinedRef THEN ObjectId(0, 0)
                              ELSE IF e = NoError THEN copy ELSE EmptyObj
                         ELSE IF passed THEN payload ELSE EmptyObj]
            /\ held = IF passed THEN 2 ELSE UndefinedRef
            /\ op = "constructor"
            /\ arg = defValue
            /\ err = e
            /\ writer = <<>>
            /\ reader = NoReader
            /\ ret = FALSE
            /\ pdu = NoPdu

NextObjectId ==
    \/ \E buf \in Inputs(ObjectIdBuffers) : BACnetObjectId_readValue(buf)
    \/ BACnetObjectId_writeValue
    \/ \E t \in OidTagDescriptors : BACnetObjectId_writeParam(t)
    \/ \E r \in CallerRefs : BACnetObjectId_setValue(r)
    \/ BACnetObjectId_getValue
    \/ \E other \in IsEqualArgs : BACnetObjectId_isEqual(other)
    \/ \E v \in OidTypes : className = "BACnetObjectId" /\ CallerAssign("type", v)
    \/ \E v \in OidInstances : className = "BACnetObjectId" /\ CallerAssign("instance", v)

(***************************************************************************)
(* complexACKPDU.getFromBuffer (complex-ack.pdu.ts is not part of the      *)
(* sources at hand; its test is).  The envelope is read byte by byte and   *)
(* the result is a map holding the fields that were read.                  *)
(***************************************************************************)
MalformedPDU == "MalformedPDU"

TestBuffer1 ==
    <<48, 1, 12, 12, 2, 0, 0, 1, 25, 12, 62, 117, 7, 0, 86, 49, 46, 48, 46, 48, 63>>

TestBuffer2 == <<48, 1, 12, 12, 4, 192, 0, 0, 25, 110, 62, 0, 63>>

\* The test buffers, with every setting of the two flag bits, cut at every length.
PduBuffers ==
    UNION {{SubSeq(<<m>> \o Tail(b), 1, n) : m \in {48, 52, 56, 60}, n \in 0..Len(b)} :
              b \in {TestBuffer1, TestBuffer2}}

\* Faulty variant (mutation testing): sequenceNumber and windowSize read whether segmented or not.
getFromBuffer_fixed(buf) ==
    LET rd0 == [buf |-> buf, pos |-> 0]
        mMeta == readUInt8(rd0)
        pduSeg == getBit(mMeta.value, 3) # 0
        pduMor == getBit(mMeta.value, 2) # 0
        invokeId == readUInt8(mMeta.rd)
        sequenceNumber == readUInt8(invokeId.rd)
        windowSize == readUInt8(sequenceNumber.rd)
        serviceChoice == readUInt8(windowSize.rd)
        ok == /\ mMeta.err = NoError
              /\ invokeId.err = NoError
              /\ sequenceNumber.err = NoError
              /\ windowSize.err = NoError
              /\ serviceChoice.err = NoError
        head == [type |-> mMeta.value \div 16, seg |-> pduSeg, mor |-> pduMor,
                 invokeId |-> invokeId.value, serviceChoice |-> serviceChoice.value,
                 serviceData |-> SubSeq(buf, serviceChoice.rd.pos + 1, Len(buf))]
        segm == [sequenceNumber |-> sequenceNumber.value, windowSize |-> windowSize.value]
    IN  IF ~ok THEN [err |-> MalformedPDU, map |-> EmptyObj, rd |-> rd0]
        ELSE [err |-> NoError, map |-> assign(head, segm), rd |-> serviceChoice.rd]

getFromBuffer(buf) ==
    LET rd0 == [buf |-> buf, pos |-> 0]
        mMeta == readUInt8(rd0)
        pduSeg == getBit(mMeta.value, 3) # 0
        pduMor == getBit(mMeta.value, 2) # 0
        invokeId == readUInt8(mMeta.rd)
        sequenceNumber == readUInt8(invokeId.rd)
        windowSize == readUInt8(sequenceNumber.rd)
        serviceChoice == readUInt8(IF pduSeg THEN windowSize.rd ELSE invokeId.rd)
        ok == /\ mMeta.err = NoError
              /\ invokeId.err = NoError
              /\ pduSeg => (sequenceNumber.err = NoError /\ windowSize.err = NoError)
              /\ serviceChoice.err = NoError
        head == [type |-> mMeta.value \div 16, seg |-> pduSeg, mor |-> pduMor,
                 invokeId |-> invokeId.value, serviceChoice |-> serviceChoice.value,
                 serviceData |-> SubSeq(buf, serviceChoice.rd.pos + 1, Len(buf))]
        segm == [sequenceNumber |-> sequenceNumber.value, windowSize |-> windowSize.value]
    IN  IF ~ok THEN [err |-> MalformedPDU, map |-> EmptyObj, rd |-> rd0]
        ELSE [err |-> NoError,
              map |-> IF pduSeg THEN assign(head, segm) ELSE head,
              rd |-> serviceChoice.rd]

complexACKPDU_getFromBuffer(buf) ==
    /\ className = "ComplexACKPDU"
    /\ LET r == getFromBuffer(buf)
       IN  /\ pdu' = [pc |-> IF r.err = NoError THEN "done" ELSE "error", map |-> r.map]
           /\ op' = "getFromBuffer"
           /\ err' = r.err
           /\ reader' = [buf |-> buf, pos |-> r.rd.pos]
    /\ UNCHANGED <<className, tag, data, heap, held, arg, writer, ret>>

InitComplexACK ==
    /\ className = "ComplexACKPDU"
    /\ tag = NoTag
    /\ data = FALSE
    /\ heap = EmptyHeap
    /\ held = UndefinedRef
    /\ op = "constructor"
    /\ arg = NoArg
    /\ err = NoError
    /\ writer = <<>>
    /\ reader = NoReader
    /\ ret = FALSE
    /\ pdu = NoPdu

NextComplexACK == \E buf \in PduBuffers : complexACKPDU_getFromBuffer(buf)

Init == InitBoolean \/ InitStatusFlags \/ InitObjectId \/ InitComplexACK
Next == NextBoolean \/ NextStatusFlags \/ NextObjectId \/ CallerNew \/ NextComplexACK
Spec == Init /\ [][Next]_vars

(***************************************************************************)
(* The wire formats, written out byte by byte.                             *)
(***************************************************************************)
\* A tag header of number num, class cls and length/value len <= 4.
Header(num, cls, len) ==
    IF num <= 14 THEN <<num * 16 + cls * 8 + len>> ELSE <<240 + cls * 8 + len, num>>

\* Application tag 12, length 4, then (t << 22) | i as four big-endian bytes.
OidWire(t, i) ==
    <<196, t \div 4, (t % 4) * 64 + (i \div 65536), (i \div 256) % 256, i % 256>>

\* Application tag 8, length 2, the unused-bits byte 4, the flags in bits 7..4.
FlagsWire(f) ==
    <<130, 4, 128 * Number(f["inAlarm"]) + 64 * Number(f["fault"])
              + 32 * Number(f["overridden"]) + 16 * Number(f["outOfService"])>>

AllFlags == [FlagNames -> BOOLEAN]

(***************************************************************************)
(* C1: an object identifier {type t, instance i} is written as an          *)
(* application tag of length 4 followed by the unsigned big-endian word    *)
(* (t << 22) | i, and reading those bytes sets data to exactly {t, i}.     *)
(***************************************************************************)
C1_ObjectIdRoundTrip ==
    className = "BACnetObjectId" =>
        /\ op = "writeValue" =>
              writer = OidWire(heap[data]["type"], heap[data]["instance"])
        /\ \A t \in OidTypes, i \in OidInstances :
              (op = "readValue" /\ reader.buf = OidWire(t, i)) =>
                  /\ err = NoError
                  /\ heap[data] = ObjectId(t, i)
                  /\ tag = [num |-> 12, type |-> 0, value |-> 4]

C1_Witness ==
    /\ className = "BACnetObjectId"
    /\ op = "readValue"
    /\ arg = "written"
    /\ reader.buf = OidWire(1023, 1)
    /\ heap[data] = ObjectId(1023, 1)

(***************************************************************************)
(* C2: status flags are written as a bit-string application tag of length  *)
(* 2, the byte 4, and one byte with inAlarm, fault, overridden and         *)
(* outOfService in bits 7, 6, 5, 4 and bits 3-0 zero; reading those bytes  *)
(* yields the same four flags.                                             *)
(***************************************************************************)
C2_StatusFlagsRoundTrip ==
    className = "BACnetStatusFlags" =>
        /\ op = "writeValue" => writer = FlagsWire(heap[data])
        /\ \A f \in AllFlags :
              (op = "readValue" /\ reader.buf = FlagsWire(f)) =>
                  (err = NoError /\ heap[data] = f)

C2_Witness ==
    /\ className = "BACnetStatusFlags"
    /\ op = "readValue"
    /\ arg = "written"
    /\ reader.buf = <<130, 4, 128>>
    /\ heap[data] = [k \in FlagNames |-> k = "inAlarm"]

(***************************************************************************)
(* C3: a boolean v is written as one application tag header, tag number    *)
(* boolean, length/value 1 for true and 0 for false, with no payload byte; *)
(* reading that output sets data to v and consumes the header only.        *)
(***************************************************************************)
C3_BooleanApplicationRoundTrip ==
    className = "BACnetBoolean" =>
        /\ op = "writeValue" => writer = <<16 + Number(data)>>
        /\ \A v \in BOOLEAN :
              (op = "readValue" /\ reader.buf = <<16 + Number(v)>>) =>
                  (err = NoError /\ data = v /\ reader.pos = 1)

C3_Witness ==
    /\ className = "BACnetBoolean"
    /\ op = "readValue"
    /\ arg = "written"
    /\ reader.buf = <<17>>
    /\ reader.pos = 1
    /\ data = TRUE

(***************************************************************************)
(* C4: reading a context-class tag consumes exactly one payload byte after *)
(* the tag and sets data to false for 0x00 and true for 0x01..0xFF;        *)
(* reading an application-class tag consumes no payload byte and takes the *)
(* value from the length/value subfield (0 false, 1 true).                 *)
(***************************************************************************)
C4_BooleanDualForm ==
    (className = "BACnetBoolean" /\ op = "readValue" /\ Len(reader.buf) >= 1) =>
        LET b == reader.buf[1]
            hl == IF b \div 16 = 15 THEN 2 ELSE 1
            context == (b \div 8) % 2 = 1
            lvt == b % 8
        IN  /\ (context /\ lvt # 5 /\ Len(reader.buf) >= hl + 1) =>
                  /\ err = NoError
                  /\ reader.pos = hl + 1
                  /\ data = (reader.buf[hl + 1] # 0)
            /\ (~context /\ lvt \in {0, 1} /\ Len(reader.buf) >= hl) =>
                  /\ err = NoError
                  /\ reader.pos = hl
                  /\ data = (lvt = 1)

C4_Witness ==
    /\ className = "BACnetBoolean"
    /\ op = "readValue"
    /\ reader.buf = <<9, 128>>
    /\ reader.pos = 2
    /\ data = TRUE

C6_ComplexAckConditionalFields ==
    (className = "ComplexACKPDU" /\ op = "getFromBuffer") =>
        LET b == reader.buf
            seg == Len(b) >= 1 /\ (b[1] \div 8) % 2 = 1
            n == IF seg THEN 5 ELSE 3
            m == pdu.map
        IN  /\ Len(b) >= n => pdu.pc = "done"
            /\ pdu.pc = "done" =>
                  /\ err = NoError
                  /\ m["type"] = b[1] \div 16
                  /\ m["seg"] = seg
                  /\ m["mor"] = ((b[1] \div 4) % 2 = 1)
                  /\ m["invokeId"] = b[2]
                  /\ ("sequenceNumber" \in DOMAIN m) = seg
                  /\ ("windowSize" \in DOMAIN m) = seg
                  /\ seg => (m["sequenceNumber"] = b[3] /\ m["windowSize"] = b[4])
                  /\ m["serviceChoice"] = b[n]
                  /\ reader.pos = n
                  /\ m["serviceData"] = SubSeq(b, n + 1, Len(b))
            /\ b = TestBuffer1 =>
                  /\ pdu.pc = "done"
                  /\ m["type"] = 3
                  /\ m["seg"] = FALSE
                  /\ m["invokeId"] = 1
                  /\ m["serviceChoice"] = 12
                  /\ m["serviceData"] = SubSeq(TestBuffer1, 4, Len(TestBuffer1))

C6_Witness ==
    /\ className = "ComplexACKPDU"
    /\ pdu.pc = "done"
    /\ reader.buf = <<56>> \o Tail(TestBuffer1)
    /\ reader.pos = 5
    /\ pdu.map["windowSize"] = 12
    /\ pdu.map["serviceChoice"] = 2

(***************************************************************************)
(* C7: a Boolean given a non-boolean value, or an Object-Identifier given  *)
(* a payload lacking type or lacking instance, fails with a validation     *)
(* error, in the constructor and in setValue; no field is defaulted, and   *)
(* after a failed setValue the value held before is still the value.       *)
(***************************************************************************)
Value == IF className = "BACnetBoolean" THEN data ELSE heap[data]

C7_Rejected ==
    /\ (/\ className = "BACnetBoolean"
        /\ op \in {"constructor", "setValue"}
        /\ ~isBoolean(arg)
        /\ ~(op = "constructor" /\ isUndefined(arg)))
           => err = BACnetError
    /\ (/\ className = "BACnetObjectId"
        /\ op \in {"constructor", "setValue"}
        /\ IsObjectRef(arg)
        /\ (~has(heap[arg], "type") \/ ~has(heap[arg], "instance")))
           => err = BACnetError

C7_FailedSetKeepsValue ==
    (/\ className \in {"BACnetBoolean", "BACnetObjectId"}
     /\ op' = "setValue"
     /\ err' # NoError)
        => (Value' = Value /\ tag' = tag)

C7_ValidationRejects == []C7_Rejected /\ [][C7_FailedSetKeepsValue]_vars

C7_Witness ==
    /\ className = "BACnetObjectId"
    /\ op = "setValue"
    /\ err = BACnetError
    /\ IsObjectRef(arg)
    /\ DOMAIN heap[arg] = {"type"}
    /\ heap[data] = ObjectId(1023, 4194303)

(***************************************************************************)
(* C8: Status-Flags constructed with no argument has all four flags false; *)
(* constructing or setting with a payload that specifies only some flags   *)
(* never fails and leaves every unspecified flag false, whatever it was    *)
(* before: the update replaces the whole value.                            *)
(***************************************************************************)
C8_StatusFlagsDefaulting ==
    (className = "BACnetStatusFlags" /\ op \in {"constructor", "setValue"}) =>
        /\ err = NoError
        /\ heap[data] =
              [k \in FlagNames |->
                  IF IsObjectRef(arg) /\ k \in DOMAIN heap[arg]
                  THEN heap[arg][k] ELSE FALSE]

C8_Witness ==
    /\ className = "BACnetStatusFlags"
    /\ op = "setValue"
    /\ tag = [num |-> 8, type |-> 0, value |-> 2]
    /\ IsObjectRef(arg)
    /\ DOMAIN heap[arg] = {"fault"}
    /\ heap[data] = [k \in FlagNames |-> k = "fault"]

(***************************************************************************)
(* C9: for Status-Flags and Object-Identifier the caller never holds the   *)
(* live internal object, neither after getValue nor after passing its own  *)
(* object to the constructor or setValue, so a change the caller makes to  *)
(* its object leaves the stored value as it was.                           *)
(***************************************************************************)
Compound == {"BACnetStatusFlags", "BACnetObjectId"}

C9_NoAlias == (className \in Compound /\ Constructed) => held # data

C9_CallerWritesKeepValue ==
    (className \in Compound /\ op' = "callerAssign") => heap'[data'] = heap[data]

C9_DefensiveCopies == []C9_NoAlias /\ [][C9_CallerWritesKeepValue]_vars

C9_Witness ==
    /\ className = "BACnetObjectId"
    /\ op = "callerAssign"
    /\ heap[held] = ObjectId(1, 0)
    /\ heap[data] = ObjectId(0, 0)
    /\ tag # NoTag

(***************************************************************************)
(* C10: writeValue, writeParam, getValue and isEqual leave the stored tag  *)
(* and data unchanged; the value changes only in a successful setValue or  *)
(* readValue; getValue returns the stored value; and writing the same      *)
(* instance twice in a row emits the same bytes.                           *)
(***************************************************************************)
TypedValues == {"BACnetBoolean", "BACnetStatusFlags", "BACnetObjectId"}

Returned == IF className = "BACnetBoolean" THEN ret ELSE heap[held]

C10_Frame ==
    className \in TypedValues =>
        /\ op' \in {"writeValue", "writeParam", "getValue", "isEqual"} =>
              (tag' = tag /\ data' = data /\ Value' = Value)
        /\ Value' # Value => (op' \in {"setValue", "readValue"} /\ err' = NoError)
        /\ op' = "getValue" => Returned' = Value
        /\ (op = "writeValue" /\ op' = "writeValue") => writer' = writer

C10_StateChangesOnlyBySetterAndDecoder == [][C10_Frame]_vars

C10_Witness ==
    /\ className = "BACnetStatusFlags"
    /\ op = "getValue"
    /\ tag = [num |-> 8, type |-> 0, value |-> 2]
    /\ heap[held] = heap[data]
    /\ heap[data]["overridden"]
====
